---- MODULE Spec2Model ----
(***************************************************************************)
(* Model of src/UTS/spike.py, the console animation player.                *)
(*                                                                         *)
(* Three kinds of threads share the dictionary `state`:                    *)
(*   - the main thread running main_menu() (control thread 0),             *)
(*   - the auto_mode_loop() threads created by start_auto()                *)
(*     (control threads 1..MaxAuto),                                       *)
(*   - the _runner() threads created by start_mode() (render tasks).       *)
(* No lock is ever taken (LOCK, line 22, is never used), so every read or  *)
(* write of a key of `state` is a step of its own and the steps of         *)
(* different threads interleave freely.  Time is not modelled: a sleep or  *)
(* a timed wait may end at any moment.                                     *)
(***************************************************************************)
EXTENDS Integers, Sequences, FiniteSets, TLC

VARIABLES
    state,   \* the dictionary `state` (lines 38-52)
    tasks,   \* the _runner threads, in the order of their creation
    ctl,     \* the main thread (0) and the auto_mode_loop threads
    saved,   \* history: for each preset saved in this run, the settings at
             \* the time of the save and whether they were changed since
    mark     \* history: the render task and its frame counter when
             \* pause_mode() last set paused, and whether resume_mode()
             \* has cleared it since

vars == <<state, tasks, ctl, saved, mark>>

hist == <<saved, mark>>

(***************************************************************************)
(* Bounds of the model.                                                    *)
(***************************************************************************)
NModes == 2
MaxTasks == 2
MaxFrames == 2
MaxAuto == 1
MaxIter == 3

(***************************************************************************)
(* Constants of the program.                                               *)
(***************************************************************************)
None == "None"

AllModes == <<"Wave", "Matrix", "Particles", "Loading",
              "Spiral", "Flames", "Equalizer", "Glitch">>

\* modes_list = list(MODES.keys()), cut to the first NModes entries
ModesList == SubSeq(AllModes, 1, NModes)

MODES == {ModesList[i] : i \in 1..NModes}

\* MODES.get(mode_name, anim_wave): the routine is named by its mode
AnimOf(mode_name) == IF mode_name \in MODES THEN mode_name ELSE "Wave"

\* the routines that call os.get_terminal_size() before their loop
UsesTerminalSize == {"Matrix", "Particles", "Spiral", "Flames", "Glitch"}

MinSpeed == 5
DefaultSpeed == 60
DefaultInterval == 8
NColors == 6

Max(a, b) == IF a >= b THEN a ELSE b

(***************************************************************************)
(* Threads.                                                                *)
(***************************************************************************)
Main == 0
Autos == 1..MaxAuto
Ctl == {Main} \cup Autos

TaskIds == 1..Len(tasks)

\* threading.Thread.is_alive()
IsAlive(t) == tasks[t].pc \notin {"new", "done"}

AliveTasks == {t \in TaskIds : IsAlive(t)}

NoPresets == [n \in {} |-> <<>>]

NoMark == [task |-> 0, at |-> -1, resumed |-> FALSE]

InitState ==
    [running |-> FALSE, paused |-> FALSE, thread |-> 0, mode |-> "Wave",
     speed |-> DefaultSpeed, color_mode |-> "cycle", single_color |-> 1,
     sound |-> TRUE, auto_mode |-> FALSE, auto_interval |-> DefaultInterval,
     auto_random |-> TRUE, presets |-> NoPresets]

InitCtl ==
    [c \in Ctl |->
        [pc |-> IF c = Main THEN "menu" ELSE "unborn",
         name |-> None, t |-> 0, idx |-> 0, ret |-> "menu"]]

Init ==
    /\ state = InitState
    /\ tasks = <<>>
    /\ ctl = InitCtl
    /\ saved = NoPresets
    /\ mark = NoMark

Goto(c, p) == ctl' = [ctl EXCEPT ![c].pc = p]

\* the keys of `state` that preset_save() copies (lines 377-385)
Fields == {"mode", "speed", "color_mode", "single_color", "sound",
           "auto_interval", "auto_random"}

Settings(s) == [f \in Fields |-> s[f]]

\* history only: note for each saved preset whether the settings differ
\* from what was saved
Touch(sv, s) ==
    [n \in DOMAIN sv |->
        [snap |-> sv[n].snap,
         changed |-> sv[n].changed \/ Settings(s) # sv[n].snap]]

(***************************************************************************)
(* Render task: _runner(mode_name) and the animation routine it calls.     *)
(* All eight routines share one loop; they differ in the frame they print  *)
(* and in whether they query the terminal size first.                      *)
(***************************************************************************)
SetTask(t, p) == tasks' = [tasks EXCEPT ![t].pc = p]

\* lines 299-300 and the routine's lines before its loop
RunnerEnter(t) ==
    /\ tasks[t].pc = "run"
    /\ \/ tasks' = [tasks EXCEPT ![t].pc = "loop",
                                 ![t].func = AnimOf(tasks[t].name)]
       \/ /\ AnimOf(tasks[t].name) \in UsesTerminalSize
          /\ tasks' = [tasks EXCEPT ![t].pc = "except",
                                    ![t].func = AnimOf(tasks[t].name)]
    /\ UNCHANGED <<state, ctl, hist>>

\* while state["running"]:     (the routine returns: its counter is gone)
AnimWhile(t) ==
    /\ tasks[t].pc = "loop"
    /\ tasks' = IF state.running
                THEN [tasks EXCEPT ![t].pc = "body"]
                ELSE [tasks EXCEPT ![t].pc = "finally", ![t].idx = 0]
    /\ UNCHANGED <<state, ctl, hist>>

\* (faulty variant: the loop does not look at paused)
AnimBodyDeaf(t) ==
    /\ tasks[t].pc = "body"
    /\ \/ tasks' = [tasks EXCEPT
                      ![t].pc = "loop",
                      ![t].idx = IF @ < MaxFrames THEN @ + 1 ELSE @]
       \/ tasks' = [tasks EXCEPT ![t].pc = "except", ![t].idx = 0]
    /\ UNCHANGED <<state, ctl, hist>>

\* (faulty variant: a paused pass starts the animation over)
AnimBodyRestart(t) ==
    /\ tasks[t].pc = "body"
    /\ IF state.paused
       THEN tasks' = [tasks EXCEPT ![t].pc = "loop", ![t].idx = 0]
       ELSE \/ tasks' = [tasks EXCEPT
                           ![t].pc = "loop",
                           ![t].idx = IF @ < MaxFrames THEN @ + 1 ELSE @]
            \/ tasks' = [tasks EXCEPT ![t].pc = "except", ![t].idx = 0]
    /\ UNCHANGED <<state, ctl, hist>>

\* One pass of the loop body: if state["paused"]: time.sleep(0.1); continue.
\* Otherwise clear(), print the frame (which may raise), idx += 1 and
\* safe_sleep(state["speed"]), which ends when the time is up or running
\* is false.  The counter saturates at MaxFrames.
AnimBody(t) ==
    /\ tasks[t].pc = "body"
    /\ IF state.paused
       THEN SetTask(t, "loop")
       ELSE \/ tasks' = [tasks EXCEPT
                           ![t].pc = "loop",
                           ![t].idx = IF @ < MaxFrames THEN @ + 1 ELSE @]
            \/ tasks' = [tasks EXCEPT ![t].pc = "except", ![t].idx = 0]
    /\ UNCHANGED <<state, ctl, hist>>

\* except Exception as e: print("Animation error:", e)
RunnerExcept(t) ==
    /\ tasks[t].pc = "except"
    /\ SetTask(t, "finally")
    /\ UNCHANGED <<state, ctl, hist>>

\* finally: state["running"] = False; then the thread ends, and
\* threading.Thread.run() deletes its target and arguments
DoneTask == [pc |-> "done", name |-> None, func |-> None, idx |-> 0]

RunnerFinally(t) ==
    /\ tasks[t].pc = "finally"
    /\ tasks' = [tasks EXCEPT ![t] = DoneTask]
    /\ state' = [state EXCEPT !.running = FALSE]
    /\ UNCHANGED <<ctl, hist>>

Render ==
    \E t \in TaskIds :
        \/ RunnerEnter(t)
        \/ AnimWhile(t)
        \/ AnimBody(t)
        \/ RunnerExcept(t)
        \/ RunnerFinally(t)

(***************************************************************************)
(* start_mode(mode_name=None), run by control thread c.                    *)
(***************************************************************************)
\* if mode_name: state["mode"] = mode_name
\* (mode_name is not read again, so the local is dropped here)
SmMode(c) ==
    /\ ctl[c].pc = "sm_mode"
    /\ state' = IF ctl[c].name # None
                THEN [state EXCEPT !.mode = ctl[c].name] ELSE state
    /\ ctl' = [ctl EXCEPT ![c].pc = "sm_chk", ![c].name = None]
    /\ saved' = Touch(saved, state')
    /\ UNCHANGED <<tasks, mark>>

\* (faulty variant: the check of running is skipped)
SmChkBlind(c) ==
    /\ ctl[c].pc = "sm_chk"
    /\ Goto(c, "sm_run")
    /\ UNCHANGED <<state, tasks, hist>>

\* if state["running"]: return
SmChk(c) ==
    /\ ctl[c].pc = "sm_chk"
    /\ Goto(c, IF state.running THEN "sm_ret" ELSE "sm_run")
    /\ UNCHANGED <<state, tasks, hist>>

\* the return of line 310
SmRet(c) ==
    /\ ctl[c].pc = "sm_ret"
    /\ Goto(c, ctl[c].ret)
    /\ UNCHANGED <<state, tasks, hist>>

\* state["running"] = True
SmRun(c) ==
    /\ ctl[c].pc = "sm_run"
    /\ state' = [state EXCEPT !.running = TRUE]
    /\ Goto(c, "sm_pause")
    /\ UNCHANGED <<tasks, hist>>

\* state["paused"] = False
SmPause(c) ==
    /\ ctl[c].pc = "sm_pause"
    /\ state' = [state EXCEPT !.paused = FALSE]
    /\ Goto(c, "sm_new")
    /\ UNCHANGED <<tasks, hist>>

\* t = threading.Thread(target=_runner, args=(state["mode"],), daemon=True)
SmNew(c) ==
    /\ ctl[c].pc = "sm_new"
    /\ Len(tasks) < MaxTasks
    /\ tasks' = Append(tasks, [pc |-> "new", name |-> state.mode,
                               func |-> None, idx |-> 0])
    /\ ctl' = [ctl EXCEPT ![c].pc = "sm_set", ![c].t = Len(tasks) + 1]
    /\ UNCHANGED <<state, hist>>

\* state["thread"] = t
SmSet(c) ==
    /\ ctl[c].pc = "sm_set"
    /\ state' = [state EXCEPT !.thread = ctl[c].t]
    /\ Goto(c, "sm_start")
    /\ UNCHANGED <<tasks, hist>>

\* t.start(); beep("start"), and the return
SmStart(c) ==
    /\ ctl[c].pc = "sm_start"
    /\ SetTask(ctl[c].t, "run")
    /\ ctl' = [ctl EXCEPT ![c].pc = ctl[c].ret, ![c].t = 0]
    /\ UNCHANGED <<state, hist>>

StartMode ==
    \E c \in Ctl :
        \/ SmMode(c)
        \/ SmChk(c)
        \/ SmRet(c)
        \/ SmRun(c)
        \/ SmPause(c)
        \/ SmNew(c)
        \/ SmSet(c)
        \/ SmStart(c)

(***************************************************************************)
(* stop_mode(), run by control thread c.                                   *)
(***************************************************************************)
\* state["running"] = False
StRun(c) ==
    /\ ctl[c].pc = "st_run"
    /\ state' = [state EXCEPT !.running = FALSE]
    /\ Goto(c, "st_pause")
    /\ UNCHANGED <<tasks, hist>>

\* state["paused"] = False
StPause(c) ==
    /\ ctl[c].pc = "st_pause"
    /\ state' = [state EXCEPT !.paused = FALSE]
    /\ Goto(c, "st_join")
    /\ UNCHANGED <<tasks, hist>>

\* (faulty variant: join() without a timeout)
StJoinForEver(c) ==
    /\ ctl[c].pc = "st_join"
    /\ IF state.thread = 0 THEN TRUE ELSE ~IsAlive(state.thread)
    /\ Goto(c, "st_beep")
    /\ UNCHANGED <<state, tasks, hist>>

\* if state["thread"] and state["thread"].is_alive():
\*     state["thread"].join(timeout=1.0)
\* The join ends when the thread has ended or the time is up, so this step
\* may be taken whatever the thread does.
StJoin(c) ==
    /\ ctl[c].pc = "st_join"
    /\ Goto(c, "st_beep")
    /\ UNCHANGED <<state, tasks, hist>>

\* beep("stop"), and the return
StBeep(c) ==
    /\ ctl[c].pc = "st_beep"
    /\ Goto(c, ctl[c].ret)
    /\ UNCHANGED <<state, tasks, hist>>

StopMode ==
    \E c \in Ctl :
        \/ StRun(c)
        \/ StPause(c)
        \/ StJoin(c)
        \/ StBeep(c)

(***************************************************************************)
(* pause_mode(), resume_mode() and menu choice 16, run by the main thread. *)
(***************************************************************************)
\* (faulty variant: pause_mode() does not look at running)
PmChkBlind ==
    /\ ctl[Main].pc = "pm_chk"
    /\ Goto(Main, "pm_set")
    /\ UNCHANGED <<state, tasks, hist>>

\* pause_mode(): if state["running"]:
PmChk ==
    /\ ctl[Main].pc = "pm_chk"
    /\ Goto(Main, IF state.running THEN "pm_set" ELSE "pr_none")
    /\ UNCHANGED <<state, tasks, hist>>

\* state["paused"] = True
PmSet ==
    /\ ctl[Main].pc = "pm_set"
    /\ state' = [state EXCEPT !.paused = TRUE]
    /\ Goto(Main, "menu")
    /\ mark' = IF state.thread # 0 /\ IsAlive(state.thread)
               THEN [task |-> state.thread, at |-> tasks[state.thread].idx,
                     resumed |-> FALSE]
               ELSE NoMark
    /\ UNCHANGED <<tasks, saved>>

\* resume_mode(): if state["running"]:
RmChk ==
    /\ ctl[Main].pc = "rm_chk"
    /\ Goto(Main, IF state.running THEN "rm_set" ELSE "pr_none")
    /\ UNCHANGED <<state, tasks, hist>>

\* state["paused"] = False
RmSet ==
    /\ ctl[Main].pc = "rm_set"
    /\ state' = [state EXCEPT !.paused = FALSE]
    /\ Goto(Main, "menu")
    /\ mark' = [mark EXCEPT !.resumed = (mark.task # 0)]
    /\ UNCHANGED <<tasks, saved>>

\* choice "16": if state["running"]:
TgChk ==
    /\ ctl[Main].pc = "tg_chk"
    /\ Goto(Main, IF state.running THEN "tg_set" ELSE "pr_none")
    /\ UNCHANGED <<state, tasks, hist>>

\* state["paused"] = not state["paused"]
TgSet ==
    /\ ctl[Main].pc = "tg_set"
    /\ state' = [state EXCEPT !.paused = ~state.paused]
    /\ Goto(Main, "menu")
    /\ UNCHANGED <<tasks, hist>>

\* the command found running false and returns to the prompt
PrNone ==
    /\ ctl[Main].pc = "pr_none"
    /\ Goto(Main, "menu")
    /\ UNCHANGED <<state, tasks, hist>>

PauseResume ==
    PmChk \/ PmSet \/ RmChk \/ RmSet \/ TgChk \/ TgSet \/ PrNone

(***************************************************************************)
(* main_menu(): the choice read at the prompt starts a command.            *)
(***************************************************************************)
AtMenu == ctl[Main].pc = "menu"

\* (history: the mark of a pause is kept only for the resume_mode() that
\* follows it as the next command)
Call(p, name) ==
    /\ ctl' = [ctl EXCEPT ![Main].pc = p, ![Main].name = name,
                          ![Main].ret = "menu"]
    /\ mark' = IF p = "rm_chk" /\ ~mark.resumed THEN mark ELSE NoMark
    /\ UNCHANGED <<state, tasks, saved>>

\* choice "1": start_mode()
MenuStart == AtMenu /\ Call("sm_mode", None)

\* choice "2": stop_mode()
MenuStop == AtMenu /\ Call("st_run", None)

\* choice "3": pause_mode()
MenuPause == AtMenu /\ Call("pm_chk", None)

\* choice "4": resume_mode()
MenuResume == AtMenu /\ Call("rm_chk", None)

\* choice "5": if m in MODES: start_mode(m) else: print("Unknown mode.")
ModeInputs == MODES \cup {"Bogus"}

MenuChoose ==
    /\ AtMenu
    /\ \E m \in ModeInputs :
          IF m \in MODES THEN Call("sm_mode", m) ELSE UNCHANGED vars

\* choice "16"
MenuToggle == AtMenu /\ Call("tg_chk", None)

\* choice "10": if state["auto_mode"]: stop_auto() else: start_auto()
MenuAuto == AtMenu /\ Call("au_chk", None)

\* choice "11": state["auto_interval"] = max(1, iv);
\*              state["auto_random"] = (ar == "y")
IntervalInputs == {0, 8}

MenuAutoSettings ==
    /\ AtMenu
    /\ \E iv \in IntervalInputs, ar \in BOOLEAN :
          state' = [state EXCEPT !.auto_interval = Max(1, iv),
                                 !.auto_random = ar]
    /\ saved' = Touch(saved, state')
    /\ UNCHANGED <<tasks, ctl, mark>>

\* choice "6": state["sound"] = not state["sound"]
MenuSound ==
    /\ AtMenu
    /\ state' = [state EXCEPT !.sound = ~state.sound]
    /\ saved' = Touch(saved, state')
    /\ UNCHANGED <<tasks, ctl, mark>>

\* choice "7": if cm in ("cycle", "random", "single"): state["color_mode"] = cm
ColorModes == {"cycle", "random", "single"}
ColorModeInputs == {"cycle", "single", "neon"}

MenuColorMode ==
    /\ AtMenu
    /\ \E cm \in ColorModeInputs :
          state' = IF cm \in ColorModes
                   THEN [state EXCEPT !.color_mode = cm] ELSE state
    /\ saved' = Touch(saved, state')
    /\ UNCHANGED <<tasks, ctl, mark>>

\* choice "8": state["single_color"] = COLORS[idx % len(COLORS)];
\*             state["color_mode"] = "single"     (a colour is its index)
ColorInputs == {-1, 7}

MenuSingleColor ==
    /\ AtMenu
    /\ \E i \in ColorInputs :
          state' = [state EXCEPT !.single_color = i % NColors,
                                 !.color_mode = "single"]
    /\ saved' = Touch(saved, state')
    /\ UNCHANGED <<tasks, ctl, mark>>

\* choice "9": state["speed"] = max(0.005, float(v))   (in milliseconds)
SpeedInputs == {-1000, 200}

MenuSpeed ==
    /\ AtMenu
    /\ \E v \in SpeedInputs :
          state' = [state EXCEPT !.speed = Max(MinSpeed, v)]
    /\ saved' = Touch(saved, state')
    /\ UNCHANGED <<tasks, ctl, mark>>

(***************************************************************************)
(* The preset manager: choices 12, 13 and 14.  The command has run when    *)
(* the main thread is at one of the "p?_..." places, with the name in      *)
(* ctl[Main].name; MenuBack returns to the prompt.                         *)
(***************************************************************************)
SaveNames == {"demo"}
PresetNames == {"demo", "old", "missing"}

Done(p, name) == ctl' = [ctl EXCEPT ![Main].pc = p, ![Main].name = name]

\* p.get(key, default)
Get(p, key, default) == IF key \in DOMAIN p THEN p[key] ELSE default

\* preset_save(name): the menu passes a non-empty name only
preset_save(name) ==
    /\ state' = [state EXCEPT
                   !.presets = [n \in DOMAIN @ \cup {name} |->
                                  IF n = name THEN Settings(state) ELSE @[n]]]
    /\ saved' = [n \in DOMAIN saved \cup {name} |->
                    IF n = name
                    THEN [snap |-> Settings(state), changed |-> FALSE]
                    ELSE saved[n]]
    /\ Done("ps_ret", name)
    /\ UNCHANGED <<tasks, mark>>

\* preset_load(name): p = state["presets"].get(name); if not p: return
Found(name) ==
    /\ name \in DOMAIN state.presets
    /\ DOMAIN state.presets[name] # {}

\* (faulty variant: the auto-cycle order is not restored)
preset_load_partial(name) ==
    /\ IF Found(name)
       THEN LET p == state.presets[name]
            IN /\ state' = [state EXCEPT
                     !.mode = Get(p, "mode", @),
                     !.speed = Get(p, "speed", @),
                     !.color_mode = Get(p, "color_mode", @),
                     !.single_color = Get(p, "single_color", @),
                     !.sound = Get(p, "sound", @),
                     !.auto_interval = Get(p, "auto_interval", @)]
               /\ Done("pl_ret", name)
       ELSE /\ state' = state
            /\ Done("pl_none", name)
    /\ saved' = Touch(saved, state')
    /\ UNCHANGED <<tasks, mark>>

\* (faulty variant: a key that the preset lacks is set to its default)
preset_load_defaults(name) ==
    /\ IF Found(name)
       THEN LET p == state.presets[name]
            IN /\ state' = [state EXCEPT
                     !.mode = Get(p, "mode", InitState.mode),
                     !.speed = Get(p, "speed", InitState.speed),
                     !.color_mode = Get(p, "color_mode", InitState.color_mode),
                     !.single_color =
                         Get(p, "single_color", InitState.single_color),
                     !.sound = Get(p, "sound", InitState.sound),
                     !.auto_interval =
                         Get(p, "auto_interval", InitState.auto_interval),
                     !.auto_random =
                         Get(p, "auto_random", InitState.auto_random)]
               /\ Done("pl_ret", name)
       ELSE /\ state' = state
            /\ Done("pl_none", name)
    /\ saved' = Touch(saved, state')
    /\ UNCHANGED <<tasks, mark>>

preset_load(name) ==
    /\ IF Found(name)
       THEN LET p == state.presets[name]
            IN /\ state' = [state EXCEPT
                     !.mode = Get(p, "mode", @),
                     !.speed = Get(p, "speed", @),
                     !.color_mode = Get(p, "color_mode", @),
                     !.single_color = Get(p, "single_color", @),
                     !.sound = Get(p, "sound", @),
                     !.auto_interval = Get(p, "auto_interval", @),
                     !.auto_random = Get(p, "auto_random", @)]
               /\ Done("pl_ret", name)
       ELSE /\ state' = state
            /\ Done("pl_none", name)
    /\ saved' = Touch(saved, state')
    /\ UNCHANGED <<tasks, mark>>

\* preset_delete(name)
preset_delete(name) ==
    /\ IF name \in DOMAIN state.presets
       THEN /\ state' = [state EXCEPT
                          !.presets = [n \in DOMAIN @ \ {name} |-> @[n]]]
            /\ Done("pd_ret", name)
       ELSE /\ state' = state
            /\ Done("pd_none", name)
    /\ saved' = [n \in DOMAIN saved \ {name} |-> saved[n]]
    /\ UNCHANGED <<tasks, mark>>

MenuSave == AtMenu /\ \E name \in SaveNames : preset_save(name)

MenuLoad == AtMenu /\ \E name \in PresetNames : preset_load(name)

MenuDelete == AtMenu /\ \E name \in PresetNames : preset_delete(name)

MenuBack ==
    /\ ctl[Main].pc \in {"ps_ret", "pl_ret", "pl_none", "pd_ret", "pd_none"}
    /\ ctl' = [ctl EXCEPT ![Main].pc = "menu", ![Main].name = None]
    /\ UNCHANGED <<state, tasks, hist>>

(***************************************************************************)
(* load_presets_file(), line 72: presets.json may hold any JSON object.    *)
(* Three files stand for them: none, one written by an earlier run, and    *)
(* one edited by hand (or of an older format) that lacks keys and holds a  *)
(* mode name that is not registered and a speed of zero.                   *)
(***************************************************************************)
OldPreset ==
    [mode |-> "Matrix", speed |-> 200, color_mode |-> "random",
     single_color |-> 0, sound |-> FALSE, auto_interval |-> 3,
     auto_random |-> FALSE]

EditedPreset == [mode |-> "Bogus", speed |-> 0]

PresetFiles ==
    {NoPresets,
     [n \in {"old"} |-> OldPreset],
     [n \in {"old"} |-> EditedPreset]}

InitFile ==
    /\ \E f \in PresetFiles : state = [InitState EXCEPT !.presets = f]
    /\ tasks = <<>>
    /\ ctl = InitCtl
    /\ saved = NoPresets
    /\ mark = NoMark

\* choice "0": stop_auto(); stop_mode(); break
MenuExit ==
    /\ AtMenu
    /\ state' = [state EXCEPT !.auto_mode = FALSE]
    /\ ctl' = [ctl EXCEPT ![Main].pc = "st_run", ![Main].ret = "exited"]
    /\ mark' = NoMark
    /\ UNCHANGED <<tasks, saved>>

(***************************************************************************)
(* start_auto() and stop_auto(), run by the main thread.                   *)
(***************************************************************************)
\* if state["auto_mode"]:     (line 497)
AuChk ==
    /\ ctl[Main].pc = "au_chk"
    /\ Goto(Main, IF state.auto_mode THEN "au_stop" ELSE "au_set")
    /\ UNCHANGED <<state, tasks, hist>>

\* stop_auto(): state["auto_mode"] = False
StopAuto ==
    /\ ctl[Main].pc = "au_stop"
    /\ state' = [state EXCEPT !.auto_mode = FALSE]
    /\ Goto(Main, "menu")
    /\ UNCHANGED <<tasks, hist>>

\* start_auto(): state["auto_mode"] = True
AuSet ==
    /\ ctl[Main].pc = "au_set"
    /\ state' = [state EXCEPT !.auto_mode = TRUE]
    /\ Goto(Main, "au_spawn")
    /\ UNCHANGED <<tasks, hist>>

\* t = threading.Thread(target=auto_mode_loop, daemon=True); t.start()
\* (modes_list and idx = 0 are set before the loop)
Unborn == {a \in Autos : ctl[a].pc = "unborn"}

AuSpawn ==
    /\ ctl[Main].pc = "au_spawn"
    /\ Unborn # {}
    /\ LET a == CHOOSE x \in Unborn : \A y \in Unborn : x <= y
       IN ctl' = [ctl EXCEPT ![Main].pc = "menu", ![a].pc = "am_while"]
    /\ UNCHANGED <<state, tasks, hist>>

StartStopAuto == AuChk \/ StopAuto \/ AuSet \/ AuSpawn

(***************************************************************************)
(* auto_mode_loop(), run by supervisor thread a.                           *)
(***************************************************************************)
\* while state["auto_mode"] and (not state["running"] or ...
AmWhile(a) ==
    /\ ctl[a].pc = "am_while"
    /\ Goto(a, IF ~state.auto_mode THEN "done"
               ELSE IF ~state.running THEN "am_pick" ELSE "am_alive")
    /\ UNCHANGED <<state, tasks, hist>>

\* ... state["thread"].is_alive()):  with state["thread"] None the call
\* raises AttributeError, which except Exception: pass turns into the end
\* of the loop
AmAlive(a) ==
    /\ ctl[a].pc = "am_alive"
    /\ Goto(a, IF state.thread # 0 /\ IsAlive(state.thread)
               THEN "am_pick" ELSE "done")
    /\ UNCHANGED <<state, tasks, hist>>

\* (faulty variant: idx is advanced before it is used as the index)
AmPickOffByOne(a) ==
    /\ ctl[a].pc = "am_pick"
    /\ IF state.auto_random
       THEN \E m \in MODES :
               ctl' = [ctl EXCEPT ![a].pc = "st_run", ![a].name = m,
                                  ![a].ret = "am_start"]
       ELSE /\ ctl[a].idx < MaxIter
            /\ ctl' = [ctl EXCEPT
                         ![a].pc = "st_run",
                         ![a].name = ModesList[((ctl[a].idx + 1) % NModes) + 1],
                         ![a].idx = @ + 1,
                         ![a].ret = "am_start"]
    /\ UNCHANGED <<state, tasks, hist>>

\* next_mode = random.choice(modes_list), or
\* next_mode = modes_list[idx % len(modes_list)]; idx += 1
\* and then the call stop_mode()
AmPick(a) ==
    /\ ctl[a].pc = "am_pick"
    /\ IF state.auto_random
       THEN \E m \in MODES :
               ctl' = [ctl EXCEPT ![a].pc = "st_run", ![a].name = m,
                                  ![a].ret = "am_start"]
       ELSE /\ ctl[a].idx < MaxIter
            /\ ctl' = [ctl EXCEPT
                         ![a].pc = "st_run",
                         ![a].name = ModesList[(ctl[a].idx % NModes) + 1],
                         ![a].idx = @ + 1,
                         ![a].ret = "am_start"]
    /\ UNCHANGED <<state, tasks, hist>>

\* start_mode(next_mode)
AmStart(a) ==
    /\ ctl[a].pc = "am_start"
    /\ ctl' = [ctl EXCEPT ![a].pc = "sm_mode", ![a].ret = "am_wait"]
    /\ UNCHANGED <<state, tasks, hist>>

\* end = time.time() + state["auto_interval"]
\* while time.time() < end: if not state["auto_mode"]: break; time.sleep(0.5)
\* The wait ends when the time is up or the flag is seen cleared.
AmWait(a) ==
    /\ ctl[a].pc = "am_wait"
    /\ Goto(a, "am_brk")
    /\ UNCHANGED <<state, tasks, hist>>

\* if not state["auto_mode"]: break
AmBrk(a) ==
    /\ ctl[a].pc = "am_brk"
    /\ Goto(a, IF state.auto_mode THEN "am_while" ELSE "done")
    /\ UNCHANGED <<state, tasks, hist>>

AutoLoop ==
    \E a \in Autos :
        \/ AmWhile(a)
        \/ AmAlive(a)
        \/ AmPick(a)
        \/ AmStart(a)
        \/ AmWait(a)
        \/ AmBrk(a)

(***************************************************************************)
(* Specifications.                                                         *)
(***************************************************************************)
\* one control thread that only starts: choices 1 and 5
NextStart == MenuStart \/ MenuChoose \/ StartMode \/ Render

SpecStart == Init /\ [][NextStart]_vars

\* one control thread: choices 1, 2, 3, 4, 5 and 16
NextSingle ==
    \/ MenuStart \/ MenuStop \/ MenuPause \/ MenuResume \/ MenuChoose
    \/ MenuToggle
    \/ StartMode \/ StopMode \/ PauseResume \/ Render

SpecSingle == Init /\ [][NextSingle]_vars

\* one control thread that starts and pauses: choices 1, 3, 4, 5 and 16
NextPause ==
    \/ MenuStart \/ MenuPause \/ MenuResume \/ MenuChoose \/ MenuToggle
    \/ StartMode \/ PauseResume \/ Render

SpecPause == Init /\ [][NextPause]_vars

\* one supervisor in round-robin order: choice 11 has set auto_random to
\* False, and choice 10 switches the supervisor on and off
InitRound ==
    /\ state = [InitState EXCEPT !.auto_random = FALSE]
    /\ tasks = <<>>
    /\ ctl = InitCtl
    /\ saved = NoPresets
    /\ mark = NoMark

\* start_mode() called only by the supervisor, right after its own
\* stop_mode(): the check of line 309 can still send it to "sm_ret", but no
\* behaviour does, so the return of line 310 is not among the steps.
StartModeAfterStop ==
    \E c \in Ctl :
        \/ SmMode(c)
        \/ SmChk(c)
        \/ SmRun(c)
        \/ SmPause(c)
        \/ SmNew(c)
        \/ SmSet(c)
        \/ SmStart(c)

NextRound ==
    \/ MenuAuto
    \/ StartStopAuto \/ AutoLoop \/ StartModeAfterStop \/ StopMode \/ Render

SpecRound == InitRound /\ [][NextRound]_vars

\* the main thread only switches the supervisor on and off: choices 10, 11
NextAuto ==
    \/ MenuAuto \/ MenuAutoSettings
    \/ StartStopAuto \/ AutoLoop \/ StartMode \/ StopMode \/ Render

SpecAuto == Init /\ [][NextAuto]_vars

\* the main thread and the supervisors both start and stop render tasks:
\* choices 0, 1, 2 and 10
NextConc ==
    \/ MenuStart \/ MenuStop \/ MenuAuto \/ MenuExit
    \/ StartMode \/ StopMode \/ StartStopAuto \/ AutoLoop \/ Render

SpecConc == Init /\ [][NextConc]_vars

\* the settings and the presets: choices 6, 7, 8, 9, 11, 12, 13 and 14
NextPreset ==
    \/ MenuSound \/ MenuColorMode \/ MenuSingleColor \/ MenuSpeed
    \/ MenuAutoSettings \/ MenuSave \/ MenuLoad \/ MenuDelete \/ MenuBack

SpecPreset == InitFile /\ [][NextPreset]_vars

\* a preset is loaded and a mode started: choices 1, 5, 9 and 13
NextLoad ==
    \/ MenuStart \/ MenuChoose \/ MenuSpeed \/ MenuLoad \/ MenuBack
    \/ StartMode \/ Render

SpecLoad == InitFile /\ [][NextLoad]_vars

\* the steps of render thread t
RenderOf(t) ==
    /\ t \in TaskIds
    /\ \/ RunnerEnter(t)
       \/ AnimWhile(t)
       \/ AnimBody(t)
       \/ RunnerExcept(t)
       \/ RunnerFinally(t)

\* one control thread that starts and stops: choices 1 and 2.  Every thread
\* that can take a step is scheduled in the end: each render thread, and
\* the main thread inside start_mode() and stop_mode().  The operator need
\* not enter anything at the prompt.
NextStop == MenuStart \/ MenuStop \/ StartMode \/ StopMode \/ Render

FairStop ==
    /\ WF_vars(StartMode)
    /\ WF_vars(StopMode)
    /\ \A t \in 1..MaxTasks : WF_vars(RenderOf(t))

SpecStop == Init /\ [][NextStop]_vars /\ FairStop

\* the presets while a mode plays and is paused: choices 1, 3, 6, 12, 13
\* and 14
NextKeep ==
    \/ MenuStart \/ MenuPause \/ MenuSound
    \/ MenuSave \/ MenuLoad \/ MenuDelete \/ MenuBack
    \/ StartMode \/ PmChk \/ PmSet \/ PrNone \/ Render

SpecKeep == InitFile /\ [][NextKeep]_vars

\* the steps of auto_mode_loop thread a, those of the stop_mode() and the
\* start_mode() it calls included
SuperOf(a) ==
    \/ AmWhile(a) \/ AmAlive(a) \/ AmPick(a) \/ AmStart(a) \/ AmWait(a)
    \/ AmBrk(a)
    \/ StRun(a) \/ StPause(a) \/ StJoin(a) \/ StBeep(a)
    \/ SmMode(a) \/ SmChk(a) \/ SmRet(a) \/ SmRun(a) \/ SmPause(a)
    \/ SmNew(a) \/ SmSet(a) \/ SmStart(a)

\* the supervisor is switched on and off while the operator starts modes:
\* choices 1 and 10.  Every supervisor thread and every render thread that
\* can take a step is scheduled in the end.
NextOff ==
    \/ MenuAuto \/ MenuStart
    \/ StartStopAuto \/ AutoLoop \/ StartMode \/ StopMode \/ Render

FairOff ==
    /\ \A a \in Autos : WF_vars(SuperOf(a))
    /\ \A t \in 1..MaxTasks : WF_vars(RenderOf(t))

SpecOff == Init /\ [][NextOff]_vars /\ FairOff

(***************************************************************************)
(* The claims.                                                             *)
(***************************************************************************)
NotDone == {t \in TaskIds : tasks[t].pc # "done"}

\* C1, as amended.  With one control thread that only calls start_mode()
\* (SpecStart), at most one render task exists that has not ended: every
\* task but the newest has ended, and a call that has found running false
\* (and goes on to create a thread) finds every earlier task ended.
C1_OneLiveTask ==
    /\ Cardinality(NotDone) <= 1
    /\ \A t \in TaskIds : t < Len(tasks) => tasks[t].pc = "done"
    /\ ctl[Main].pc \in {"sm_run", "sm_pause", "sm_new"} => NotDone = {}

\* C1 witness: a later call has found running true and returns without
\* creating a thread, while the one render task is alive.
C1_LaterCallCreatesNone ==
    /\ ctl[Main].pc = "sm_ret"
    /\ Len(tasks) = 1
    /\ IsAlive(1)
    /\ state.running

\* C1 as stated: only the first call that finds running false creates a
\* thread, every later call creates none.
C1_OnlyFirstCallCreates == Len(tasks) <= 1

\* C2 as stated: the check of running and running = True act as one step,
\* so that two control threads are never both between the check and the
\* assignment, and no state has two live render tasks.
C2_AtomicStart ==
    /\ \A c1, c2 \in Ctl :
          (ctl[c1].pc = "sm_run" /\ ctl[c2].pc = "sm_run") => c1 = c2
    /\ Cardinality(AliveTasks) <= 1

\* C3 as stated: start_mode(name) called while running is true changes
\* nothing, the mode field included.
C3_StartWhileRunningIsNoOp ==
    [][(ctl[Main].pc = "sm_mode" /\ ctl'[Main].pc = "sm_chk" /\ state.running)
          => state' = state]_vars

\* C4 as stated: when stop_mode() returns (its last statement, line 324,
\* is all that is left), running is false and paused is false.
C4_StopReturnsStopped ==
    \A c \in Ctl : ctl[c].pc = "st_beep" => ~state.running /\ ~state.paused

InLoop(t) == tasks[t].pc \in {"loop", "body"}

\* a step of the main thread from one of the places P
MainStep(P) == ctl[Main].pc \in P /\ ctl'[Main] # ctl[Main]

\* C5.  pause_mode() followed by resume_mode(): no step of the two changes
\* running, the active-task handle or any render task (none is created),
\* and once resume_mode() has cleared paused, the render task that was
\* paused, while it is still the active one and in its loop, has a frame
\* counter no smaller than at the pause: it was not reset to zero.
C5_PauseResumeKeepsTask ==
    /\ [](/\ mark.resumed
          /\ state.thread = mark.task
          /\ InLoop(mark.task)
          => tasks[mark.task].idx >= mark.at)
    /\ [][MainStep({"pm_chk", "pm_set", "rm_chk", "rm_set"})
            => /\ state'.running = state.running
               /\ state'.thread = state.thread
               /\ tasks' = tasks]_vars

\* C5 witness: a running task was paused at frame counter 1 or more, was
\* resumed, and has since produced a frame that counts on from there.
C5_ResumedAndCounting ==
    /\ mark.resumed
    /\ mark.at >= 1
    /\ state.thread = mark.task
    /\ InLoop(mark.task)
    /\ tasks[mark.task].idx > mark.at
    /\ state.running
    /\ ~state.paused

\* C6.  pause_mode(), resume_mode() and choice 16 write paused only in a
\* call whose check found running true, they write True, False and the
\* negation, and they change no other key and no render task; a call whose
\* check found running false changes nothing.
C6_PauseOnlyWhenRunning ==
    [][/\ MainStep({"pm_chk", "rm_chk", "tg_chk"})
            => /\ state' = state
               /\ tasks' = tasks
               /\ ctl'[Main].pc \in {"pm_set", "rm_set", "tg_set"}
                     <=> state.running
               /\ ctl'[Main].pc = "pr_none" <=> ~state.running
       /\ MainStep({"pm_set", "rm_set", "tg_set"})
            => /\ tasks' = tasks
               /\ state' = [state EXCEPT !.paused = state'.paused]
               /\ state'.paused = CASE ctl[Main].pc = "pm_set" -> TRUE
                                    [] ctl[Main].pc = "rm_set" -> FALSE
                                    [] OTHER -> ~state.paused
       /\ MainStep({"pr_none"}) => state' = state /\ tasks' = tasks]_vars

\* C6 witness: a render task has run and ended, and a pause, resume or
\* toggle called afterwards has found running false and returns.
C6_CalledWhenNotRunning ==
    /\ ctl[Main].pc = "pr_none"
    /\ ~state.running
    /\ Len(tasks) >= 1

\* no supervisor but a has been started
Single(a) == \A b \in Autos \ {a} : ctl[b].pc = "unborn"

\* the mode of round-robin iteration k = 1, 2, ...
RoundMode(k) == ModesList[((k - 1) % NModes) + 1]

\* C7.  With auto_random False and one supervisor loop (SpecRound), in
\* iteration k the loop calls stop_mode() and then start_mode(next) with
\* next the ((k-1) mod N)+1-th registered mode; the call is never a no-op:
\* it creates the k-th thread, for that mode, and makes it the active task,
\* which runs the routine of that mode for as long as it lives.
C7_RoundRobin ==
    \A a \in Autos :
        (Single(a) /\ ctl[a].idx >= 1) =>
            LET k == ctl[a].idx
                m == RoundMode(k)
                pc == ctl[a].pc
            IN /\ pc \in {"st_run", "st_pause", "st_join", "st_beep",
                          "am_start", "sm_mode"}
                    => ctl[a].name = m /\ Len(tasks) = k - 1
               /\ pc \in {"sm_chk", "sm_run", "sm_pause", "sm_new"}
                    => state.mode = m /\ Len(tasks) = k - 1
               /\ pc # "sm_ret"
               /\ pc \in {"sm_set", "sm_start"}
                    => Len(tasks) = k /\ ctl[a].t = k /\ tasks[k].name = m
               /\ pc \in {"am_wait", "am_brk", "am_while", "am_alive",
                          "am_pick", "done"}
                    => /\ Len(tasks) = k
                       /\ state.thread = k
                       /\ state.mode = m
                       /\ tasks[k].pc # "done"
                            => /\ tasks[k].name = m
                               /\ tasks[k].func \in {None, m}

\* C7 witness: after one iteration for each of the N registered modes, the
\* last of them still alive, iteration N+1 has chosen the first mode again.
C7_WrapsAround ==
    \E a \in Autos :
        /\ Single(a)
        /\ ctl[a].idx = NModes + 1
        /\ ctl[a].pc = "sm_new"
        /\ state.mode = ModesList[1]
        /\ Len(tasks) = NModes
        /\ tasks[NModes].func = ModesList[NModes]

\* C8.  Round trip: when preset_load(n) has run for a preset n saved in
\* this run, each of the seven settings has the value it had at the time
\* of the save, whatever was changed in between.
C8_RoundTrip ==
    (ctl[Main].pc = "pl_ret" /\ ctl[Main].name \in DOMAIN saved)
        => Settings(state) = saved[ctl[Main].name].snap

\* C8 witness: the settings were changed after the save, and the load has
\* brought back the saved ones.
C8_ChangedThenRestored ==
    /\ ctl[Main].pc = "pl_ret"
    /\ ctl[Main].name \in DOMAIN saved
    /\ saved[ctl[Main].name].changed
    /\ Settings(state) = saved[ctl[Main].name].snap

\* C9 as stated: the frame delay is at least the minimum (0.005 s), and so
\* strictly positive, in every reachable state.
C9_SpeedAtLeastMin == state.speed >= MinSpeed /\ state.speed > 0

\* C10 as stated: the mode field never holds an unregistered name, and no
\* render task runs a routine for a name that is not registered.
C10_UnknownModeRejected ==
    /\ state.mode \in MODES
    /\ \A t \in TaskIds : tasks[t].func # None => tasks[t].name \in MODES

\* C11 as stated: once the exit sequence stop_auto(); stop_mode() of the
\* main thread has returned, running is false and stays false, and no
\* render thread is created or started.
C11_NoStartAfterShutdown ==
    [][ctl[Main].pc = "exited"
         => /\ ~state.running /\ ~state'.running
            /\ Len(tasks') = Len(tasks)
            /\ \A t \in TaskIds : tasks[t].pc = "new" => tasks'[t].pc = "new"]_vars

\* an auto_mode_loop thread that has been started and has not ended
LiveAutos == {a \in Autos : ctl[a].pc \notin {"unborn", "done"}}

\* C12 as stated: at most one supervisor loop is alive, and start_auto()
\* comes to launch a loop (lines 364-365) only when none is alive.
C12_OneSupervisor ==
    /\ Cardinality(LiveAutos) <= 1
    /\ ctl[Main].pc = "au_spawn" => LiveAutos = {}

\* C13 as stated: a supervisor loop ends only when auto_mode is false.
C13_ExitsOnlyWhenOff ==
    [][\A a \in Autos :
          (ctl[a].pc # "done" /\ ctl'[a].pc = "done") => ~state.auto_mode]_vars

\* a render task created after t that has not ended
Newer(t) == {u \in TaskIds : u > t /\ tasks[u].pc # "done"}

\* C14 as stated: the step that ends render task t (line 304) leaves
\* running false, unless a newer task has been started, and then it leaves
\* running as it is.
C14_ExitKeepsNewerFlag ==
    [][\A t \in TaskIds :
          (tasks[t].pc = "finally" /\ tasks'[t].pc = "done")
             => IF Newer(t) = {}
                THEN ~state'.running
                ELSE state'.running = state.running]_vars

\* stop_mode() has just set running to False (line 320) while task t is alive
StoppedAlive(t) ==
    /\ t \in TaskIds
    /\ IsAlive(t)
    /\ \E c \in Ctl : ctl[c].pc = "st_pause"

\* C15 as stated: a render task that is alive when stop_mode() sets running
\* to False ends in the end.
C15_StoppedTaskEnds ==
    \A t \in 1..MaxTasks :
        StoppedAlive(t) ~> (t \in TaskIds /\ tasks[t].pc = "done")

\* no control thread is inside start_mode(), stop_mode() or another command
Idle == \A c \in Ctl : ctl[c].pc \in {"menu", "unborn", "done", "exited"}

\* C16 as stated: when running is false and no command is in progress, the
\* handle state["thread"] is None.
C16_HandleClearedWhenIdle == (~state.running /\ Idle) => state.thread = 0

\* a step in which preset_save(), preset_load() or preset_delete() runs
PresetStep(P) == ctl[Main].pc = "menu" /\ ctl'[Main].pc \in P

\* C17.  preset_save(), preset_load() and preset_delete() leave running,
\* paused, the handle and every render task as they are; preset_load()
\* leaves a setting that the snapshot lacks (and auto_mode and the presets)
\* at its value; preset_load() and preset_delete() of a name that is not in
\* the mapping change nothing of the shared state.
C17_PresetsKeepPlayback ==
    [][/\ PresetStep({"ps_ret", "pl_ret", "pl_none", "pd_ret", "pd_none"})
            => /\ state'.running = state.running
               /\ state'.paused = state.paused
               /\ state'.thread = state.thread
               /\ state'.auto_mode = state.auto_mode
               /\ tasks' = tasks
       /\ PresetStep({"pl_ret"})
            => /\ state'.presets = state.presets
               /\ \A f \in Fields \ DOMAIN state.presets[ctl'[Main].name] :
                     state'[f] = state[f]
       /\ (/\ PresetStep({"pl_ret", "pl_none", "pd_ret", "pd_none"})
           /\ ctl'[Main].name \notin DOMAIN state.presets)
            => /\ state' = state
               /\ ctl'[Main].pc \in {"pl_none", "pd_none"}]_vars

\* C17 witness: while a render task plays and is paused, with the sound
\* switched off, the preset that holds only a mode and a speed has been
\* loaded: the speed is the preset's, the sound setting is still off.
C17_LoadedWhilePaused ==
    /\ ctl[Main].pc = "pl_ret"
    /\ ctl[Main].name = "old"
    /\ state.presets["old"] = EditedPreset
    /\ state.speed = 0
    /\ ~state.sound
    /\ state.running
    /\ state.paused
    /\ state.thread # 0
    /\ IsAlive(state.thread)

\* supervisor a is held by a bound of the model, not by the program
Capped(a) ==
    \/ ctl[a].pc = "sm_new" /\ Len(tasks) >= MaxTasks
    \/ ctl[a].pc = "am_pick" /\ ~state.auto_random /\ ctl[a].idx >= MaxIter

\* C18.  If from some time on auto_mode is false, every supervisor loop
\* (that the bounds of the model do not hold for ever) ends.
C18_SupervisorExits ==
    \A a \in Autos :
        (<>[](~state.auto_mode) /\ []<>(~Capped(a)))
            => <>[](ctl[a].pc \in {"unborn", "done"})

\* C18 witness: auto_mode is false and a supervisor loop that has run an
\* iteration has ended, leaving its render task playing.
C18_EndedAfterStopAuto ==
    \E a \in Autos :
        /\ ctl[a].pc = "done"
        /\ ~state.auto_mode
        /\ state.running
        /\ state.thread # 0
        /\ IsAlive(state.thread)

\* C19.  A pass of the render loop that reads paused true prints no frame
\* and leaves the frame counter as it is: the task only goes back to the
\* loop test.  The counter of a task that stays in its loop changes only in
\* a pass that reads paused false, and only upwards.
C19_PausedPassIdles ==
    [][\A t \in TaskIds :
          /\ (tasks[t].pc = "body" /\ tasks'[t] # tasks[t] /\ state.paused)
                => tasks'[t] = [tasks[t] EXCEPT !.pc = "loop"]
          /\ (InLoop(t) /\ tasks'[t].pc \in {"loop", "body"})
                => /\ tasks'[t].idx >= tasks[t].idx
                   /\ tasks'[t].idx # tasks[t].idx
                        => tasks[t].pc = "body" /\ ~state.paused]_vars

\* C19 witness: the running task, which has printed a frame, is at the top
\* of a pass of its loop while paused is true.
C19_PassWhilePaused ==
    /\ state.running
    /\ state.paused
    /\ state.thread # 0
    /\ tasks[state.thread].pc = "body"
    /\ tasks[state.thread].idx >= 1

\* C20 as stated: paused is true only while running is true.
C20_PausedImpliesRunning == state.paused => state.running

====
